---- MODULE Spec2Model ----
(***************************************************************************)
(* Property / event logging service (src/server/server.py).                *)
(* src/server.py is the earlier variant of the same handlers, without the  *)
(* date parameters; its get_log and delete_event use the same filters.     *)
(*                                                                         *)
(* The store is the SQLite database behind SQLAlchemy: the two tables      *)
(* "properties" and "logs".  The handlers are plain functions, which       *)
(* FastAPI serves from a thread pool, each request in a session of its own *)
(* and with no lock, so requests overlap.  A step of the model is one      *)
(* statement a handler sends to the database (a SELECT, or the writes of   *)
(* one commit): a SELECT runs outside any transaction and reads what is    *)
(* committed at that moment, and a commit writes by primary key the rows   *)
(* the session loaded earlier.                                             *)
(*                                                                         *)
(* What the model takes from the libraries the handlers call:              *)
(*  - both primary keys are INTEGER PRIMARY KEY columns created without    *)
(*    the AUTOINCREMENT keyword (SQLAlchemy emits it only for              *)
(*    sqlite_autoincrement=True), so an insert gets max(id) + 1, or 1 in   *)
(*    an empty table;                                                      *)
(*  - SQLite does not enforce the FOREIGN KEY clause (PRAGMA foreign_keys  *)
(*    is off unless a connection turns it on, and none does);              *)
(*  - a query without ORDER BY scans the table in rowid order, so first()  *)
(*    is the matching row with the least id;                               *)
(*  - bool(column == value) is False for a SQLAlchemy comparison, so the   *)
(*    Python expression  (a == x and b == y)  is the clause  a == x;       *)
(*  - a commit expires the session's objects (expire_on_commit), so an     *)
(*    object returned after a commit without a refresh serialises to {};   *)
(*  - a flush sends an UPDATE of the columns whose value differs from the  *)
(*    loaded one, and raises StaleDataError when it matches no row; a      *)
(*    DELETE that matches no row only warns.                               *)
(***************************************************************************)
EXTENDS Integers, Sequences, FiniteSets, Bags

\* ---------------------------------------------------------------- bounds
\* The greatest id a Property, and a Log, is given.
MaxPropertyId == 1
MaxEventId == 2
\* The greatest id a Log is given where requests carry every date string.
MaxDatedEventId == 1
MaxDay == 2
\* The number of requests that have sent a statement and not yet answered.
MaxInFlight == 2
\* The number of distinct times of day; datetime.time has 86,400,000,000.
TicksPerDay == 3

VARIABLES
    properties,     \* table "properties": id -> [number, notes]
    logs,           \* table "logs": id -> [propertyId, timestamp, description]
    inflight,       \* bag of the requests between two of their statements
    last,           \* the last request answered and its response
    assignedPropertyIds,  \* history: every id a Property insert has been given
    assignedEventIds,     \* history: every id a Log insert has been given
    created,        \* history: id -> (number, notes) given to create_property,
                    \*   kept until that id is updated or deleted by request
    deleted         \* history: id -> the event ids delete_property removed,
                    \*   kept until a create involves that id again

store == <<properties, logs>>
history == <<assignedPropertyIds, assignedEventIds, created, deleted>>
vars ==
    <<properties, logs, inflight, last,
      assignedPropertyIds, assignedEventIds, created, deleted>>

\* ------------------------------------------------------- dates and times
time_min == 0
time_max == TicksPerDay - 1

Days == 1..MaxDay
Ticks == time_min..time_max

\* A datetime is <<day, tick>>; None is the empty tuple.
None == <<>>
DateTimes == Days \X Ticks

\* t1 >= t2 and t1 <= t2 on datetimes
Geq(t1, t2) == t1[1] > t2[1] \/ (t1[1] = t2[1] /\ t1[2] >= t2[2])
Leq(t1, t2) == Geq(t2, t1)

\* The strings a caller can put in a date parameter.
Omitted == [form |-> "omitted", day |-> 0, tick |-> 0]
EmptyString == [form |-> "empty", day |-> 0, tick |-> 0]
NotADate == [form |-> "invalid", day |-> 0, tick |-> 0]
DateOnly(d) == [form |-> "date", day |-> d, tick |-> 0]
DateTimeString(d, t) == [form |-> "datetime", day |-> d, tick |-> t]

DateStrings ==
    {Omitted, EmptyString, NotADate}
        \cup {DateOnly(d) : d \in Days}
        \cup {DateTimeString(d, t) : d \in Days, t \in Ticks}

\* Python truthiness of an optional str parameter: None and "" are falsy.
Truthy(s) == s.form \notin {"omitted", "empty"}

\* datetime.fromisoformat: the parsed datetime, or "ValueError".
ValueError == <<"ValueError">>
fromisoformat(s) ==
    CASE s.form = "date" -> <<s.day, time_min>>
      [] s.form = "datetime" -> <<s.day, s.tick>>
      [] OTHER -> ValueError

\* Variants of validateDateTime with a slip in them, for checking that the
\* properties below depend on it: one falls back to a date where the code
\* returns None, one never applies the default time.
validateDateTime_defaulting_on_error(dateTimeString, defaultTime) ==
    LET parsedDateTime == fromisoformat(dateTimeString)
    IN  IF parsedDateTime = ValueError
        THEN <<1, defaultTime>>
        ELSE IF parsedDateTime[2] = time_min
             THEN <<parsedDateTime[1], defaultTime>>
             ELSE parsedDateTime

validateDateTime_ignoring_default(dateTimeString, defaultTime) ==
    LET parsedDateTime == fromisoformat(dateTimeString)
    IN  IF parsedDateTime = ValueError THEN None ELSE parsedDateTime

validateDateTime(dateTimeString, defaultTime) ==
    LET parsedDateTime == fromisoformat(dateTimeString)
    IN  IF parsedDateTime = ValueError
        THEN None
        ELSE IF parsedDateTime[2] = time_min
             THEN <<parsedDateTime[1], defaultTime>>
             ELSE parsedDateTime

\* ------------------------------------------------------------ the tables
PropertyIds == 1..MaxPropertyId
EventIds == 1..MaxEventId

Max(S) == CHOOSE x \in S : \A y \in S : y <= x
Min(S) == CHOOSE x \in S : \A y \in S : x <= y

\* The id an insert is given: rowid = max(rowid) + 1, 1 in an empty table.
NextId(table) == IF DOMAIN table = {} THEN 1 ELSE Max(DOMAIN table) + 1

\* The rows as the handlers return them.
Property(id) == [id |-> id, number |-> properties[id].number, notes |-> properties[id].notes]
Log(id) ==
    [id |-> id, propertyId |-> logs[id].propertyId,
     timestamp |-> logs[id].timestamp, description |-> logs[id].description]

\* Query.all(): the matching rows in rowid order.
RECURSIVE InIdOrder(_)
InIdOrder(ids) ==
    IF ids = {} THEN <<>> ELSE <<Min(ids)>> \o InIdOrder(ids \ {Min(ids)})

\* Query.first(): the first matching row, or none.
first(ids) == IF ids = {} THEN {} ELSE {Min(ids)}

\* db.query(Property).filter(Property.id == property_id)
PropertyById(property_id) == {p \in DOMAIN properties : p = property_id}

\* db.query(Log).filter(Log.propertyId == property_id)
LogsOfProperty(property_id) == {l \in DOMAIN logs : logs[l].propertyId = property_id}

\* db.query(Log).filter(Log.propertyId == property_id and Log.id == event_id):
\* the "and" is Python's, its left operand is falsy, the clause is the left one.
LogsMatching(property_id, event_id) == LogsOfProperty(property_id)

\* db.query(Property).filter(Log.propertyId == property_id and Log.id == event_id):
\* SELECT properties.* FROM properties, logs WHERE logs.propertyId = ?
\* is the cross product, so every Property row, if any Log row matches.
PropertiesMatching(property_id, event_id) ==
    IF LogsOfProperty(property_id) = {} THEN {} ELSE DOMAIN properties

Remove(table, ids) == [i \in DOMAIN table \ ids |-> table[i]]
Insert(table, id, row) == [i \in DOMAIN table \cup {id} |-> IF i = id THEN row ELSE table[i]]

\* ------------------------------------------------------------- responses
\* A response is a status and a JSON body.  Every body is a record: a row, an
\* error's {"detail": ...}, a {"message": ...}, or, for a list of rows, the
\* list under the field "rows".
OK(body) == [status |-> 200, body |-> body]
HTTPException(status_code, detail) ==
    [status |-> status_code, body |-> [detail |-> detail]]

Exchange(op, args, response) ==
    [op |-> op, args |-> args, status |-> response.status, body |-> response.body]

\* An unhandled exception: Starlette answers 500 with a plain text body.
InternalServerError == [status |-> 500, body |-> [text |-> "Internal Server Error"]]

\* An expired object, as FastAPI serialises it: {}.
Expired == <<>>

\* A request enters, and leaves, the requests in flight.
Pending(request) == inflight (+) SetToBag({request})
Done(request) == inflight (-) SetToBag({request})

Init ==
    /\ properties = <<>>
    /\ logs = <<>>
    /\ inflight = EmptyBag
    /\ last = Exchange("none", <<>>, OK([message |-> ""]))
    /\ assignedPropertyIds = {}
    /\ assignedEventIds = {}
    /\ created = <<>>
    /\ deleted = <<>>

\* ------------------------------------------------------ property handlers
\* db.add(property_); db.commit(): the INSERT.
create_property(number, notes) ==
    LET id == NextId(properties)
        args == [number |-> number, notes |-> notes]
    IN  /\ properties' = Insert(properties, id, [number |-> number, notes |-> notes])
        /\ inflight' = Pending([op |-> "create_property", args |-> args, id |-> id])
        /\ assignedPropertyIds' = assignedPropertyIds \cup {id}
        /\ created' = Insert(created, id, [number |-> number, notes |-> notes])
        /\ deleted' = Remove(deleted, {id})
        /\ UNCHANGED <<logs, last, assignedEventIds>>

\* db.refresh(property_); return property_: the row with that id as it is now.
create_property_refresh(request) ==
    /\ request.op = "create_property"
    /\ inflight' = Done(request)
    /\ last' = Exchange("create_property", request.args,
                        IF request.id \in DOMAIN properties
                        THEN OK(Property(request.id))
                        ELSE InternalServerError)
    /\ UNCHANGED <<store, history>>

get_all_properties_response ==
    OK([rows |-> [i \in 1..Cardinality(DOMAIN properties) |->
                        Property(InIdOrder(DOMAIN properties)[i])]])

get_all_properties ==
    /\ last' = Exchange("get_all_properties", <<>>, get_all_properties_response)
    /\ UNCHANGED <<store, inflight, history>>

get_property_response(property_id) ==
    LET property_ == first(PropertyById(property_id))
    IN  IF property_ = {}
        THEN HTTPException(404, "Property not found.")
        ELSE OK(Property(Min(property_)))

get_property(property_id) ==
    /\ last' = Exchange("get_property", [property_id |-> property_id],
                        get_property_response(property_id))
    /\ UNCHANGED <<store, inflight, history>>

\* The SELECT of the property, the 404, and the assignments to the loaded row.
update_property(property_id, number, notes) ==
    LET property_ == first(PropertyById(property_id))
        args == [property_id |-> property_id, number |-> number, notes |-> notes]
    IN  IF property_ = {}
        THEN /\ last' = Exchange("update_property", args,
                                 HTTPException(404, "Property not found."))
             /\ UNCHANGED <<store, inflight, history>>
        ELSE /\ inflight' = Pending([op |-> "update_property", args |-> args,
                                     loaded |-> properties[property_id]])
             /\ UNCHANGED <<store, last, history>>

\* db.commit(); return property_: the UPDATE of the columns that were given
\* another value than the loaded one.
update_property_commit(request) ==
    LET id == request.args.property_id
        number_changed == request.args.number # request.loaded.number
        notes_changed == request.args.notes # request.loaded.notes
    IN  /\ request.op = "update_property"
        /\ inflight' = Done(request)
        /\ IF ~number_changed /\ ~notes_changed
           THEN /\ last' = Exchange("update_property", request.args, OK(Expired))
                /\ created' = Remove(created, {id})
                /\ UNCHANGED <<store, assignedPropertyIds, assignedEventIds, deleted>>
           ELSE IF id \notin DOMAIN properties
           THEN /\ last' = Exchange("update_property", request.args, InternalServerError)
                /\ UNCHANGED <<store, history>>
           ELSE /\ properties' = [properties EXCEPT ![id] =
                        [number |-> IF number_changed THEN request.args.number
                                    ELSE properties[id].number,
                         notes |-> IF notes_changed THEN request.args.notes
                                   ELSE properties[id].notes]]
                /\ last' = Exchange("update_property", request.args, OK(Expired))
                /\ created' = Remove(created, {id})
                /\ UNCHANGED <<logs, assignedPropertyIds, assignedEventIds, deleted>>

\* The SELECT of the property, and the 404.
delete_property(property_id) ==
    LET property_ == first(PropertyById(property_id))
        args == [property_id |-> property_id]
    IN  IF property_ = {}
        THEN /\ last' = Exchange("delete_property", args,
                                 HTTPException(404, "Property not found."))
             /\ UNCHANGED <<store, inflight, history>>
        ELSE /\ inflight' = Pending([op |-> "delete_property", args |-> args,
                                     pc |-> "logs", logs |-> {}])
             /\ UNCHANGED <<store, last, history>>

\* The SELECT of the property's logs.
delete_property_logs(request) ==
    /\ request.op = "delete_property"
    /\ request.pc = "logs"
    /\ inflight' = Done(request) (+) SetToBag({[request EXCEPT
                        !.pc = "commit",
                        !.logs = LogsOfProperty(request.args.property_id)]})
    /\ UNCHANGED <<store, last, history>>

\* db.commit(): the DELETE, by id, of the logs that were read and of the property.
delete_property_commit(request) ==
    /\ request.op = "delete_property"
    /\ request.pc = "commit"
    /\ inflight' = Done(request)
    /\ logs' = Remove(logs, request.logs)
    /\ properties' = Remove(properties, {request.args.property_id})
    /\ last' = Exchange("delete_property", request.args,
                        OK([message |-> "Property and associated logs deleted."]))
    /\ created' = Remove(created, {request.args.property_id})
    /\ deleted' = Insert(deleted, request.args.property_id, request.logs)
    /\ UNCHANGED <<assignedPropertyIds, assignedEventIds>>

\* --------------------------------------------------------- event handlers
\* The rows of `query` that pass  Log.timestamp >= bound.
TimestampGeq(query, bound) == {l \in query : Geq(logs[l].timestamp, bound)}

get_property_events_response(property_id, start_date, end_date) ==
    LET query == LogsOfProperty(property_id)
        parsed_start == validateDateTime(start_date, time_min)
        parsed_end == validateDateTime(end_date, time_max)
        query1 == IF Truthy(start_date) THEN TimestampGeq(query, parsed_start) ELSE query
        query2 == IF Truthy(end_date) THEN TimestampGeq(query1, parsed_end) ELSE query1
        found == InIdOrder(query2)
    IN  IF Truthy(start_date) /\ parsed_start = None
        THEN HTTPException(400, "Unable to parse start_date. Use YYYY-MM-DD or YYYY-MM-DDTHH:MM:SS")
        ELSE IF Truthy(end_date) /\ parsed_end = None
        THEN HTTPException(400, "Unable to parse end_date. Use YYYY-MM-DD or YYYY-MM-DDTHH:MM:SS")
        ELSE IF found = <<>>
        THEN IF Truthy(start_date) \/ Truthy(end_date)
             THEN HTTPException(404, "No events found for this property in the given range.")
             ELSE HTTPException(404, "No events found for this property.")
        ELSE OK([rows |-> [i \in 1..Len(found) |-> Log(found[i])]])

get_property_events(property_id, start_date, end_date) ==
    /\ last' = Exchange("get_property_events",
                        [property_id |-> property_id, start_date |-> start_date,
                         end_date |-> end_date],
                        get_property_events_response(property_id, start_date, end_date))
    /\ UNCHANGED <<store, inflight, history>>

\* The timestamp's parsing, the 400, and db.add(log); db.commit(): the INSERT.
\* `now` is what datetime.now() returns during the request.
create_event(property_id, description, timestamp, now) ==
    LET args == [property_id |-> property_id, description |-> description,
                 timestamp |-> timestamp]
        parsed_timestamp ==
            IF Truthy(timestamp) THEN validateDateTime(timestamp, time_min) ELSE now
        id == NextId(logs)
        log == [propertyId |-> property_id, timestamp |-> parsed_timestamp,
                description |-> description]
    IN  IF parsed_timestamp = None
        THEN /\ last' = Exchange("create_event", args,
                    HTTPException(400, "Unable to parse timestamp. Use YYYY-MM-DD or YYYY-MM-DDTHH:MM:SS"))
             /\ UNCHANGED <<store, inflight, history>>
        ELSE /\ logs' = Insert(logs, id, log)
             /\ inflight' = Pending([op |-> "create_event", args |-> args, id |-> id])
             /\ assignedEventIds' = assignedEventIds \cup {id}
             /\ deleted' = Remove(deleted, {property_id})
             /\ UNCHANGED <<properties, last, assignedPropertyIds, created>>

\* db.refresh(log); return log: the row with that id as it is now.
create_event_refresh(request) ==
    /\ request.op = "create_event"
    /\ inflight' = Done(request)
    /\ last' = Exchange("create_event", request.args,
                        IF request.id \in DOMAIN logs
                        THEN OK(Log(request.id))
                        ELSE InternalServerError)
    /\ UNCHANGED <<store, history>>

get_event_response(property_id, event_id) ==
    LET log == first(LogsMatching(property_id, event_id))
    IN  IF log = {}
        THEN HTTPException(404, "Log not found.")
        ELSE OK(Log(Min(log)))

get_event(property_id, event_id) ==
    /\ last' = Exchange("get_event", [property_id |-> property_id, event_id |-> event_id],
                        get_event_response(property_id, event_id))
    /\ UNCHANGED <<store, inflight, history>>

\* The SELECT, and the 404.  The row the handler calls `log` is a Property row.
delete_event(property_id, event_id) ==
    LET log == first(PropertiesMatching(property_id, event_id))
        args == [property_id |-> property_id, event_id |-> event_id]
    IN  IF log = {}
        THEN /\ last' = Exchange("delete_event", args, HTTPException(404, "Event not found"))
             /\ UNCHANGED <<store, inflight, history>>
        ELSE /\ inflight' = Pending([op |-> "delete_event", args |-> args, log |-> Min(log)])
             /\ UNCHANGED <<store, last, history>>

\* db.delete(log); db.commit(): the DELETE, by id, of that Property row; the
\* Log rows stay.
delete_event_commit(request) ==
    /\ request.op = "delete_event"
    /\ inflight' = Done(request)
    /\ properties' = Remove(properties, {request.log})
    /\ last' = Exchange("delete_event", request.args, OK([message |-> "Event deleted"]))
    /\ UNCHANGED <<logs, history>>

\* ------------------------------------------------------------- requests
Numbers == {"101", "102"}
NotesValues == {"corner unit", "attic"}
Descriptions == {"inspection"}

\* The (start_date, end_date) pairs of the requests: either bound alone, and
\* both bounds together where neither gives a time of day.
DateRanges(dateStrings) ==
    {<<s, Omitted>> : s \in dateStrings}
        \cup {<<Omitted, e>> : e \in dateStrings}
        \cup {r \in dateStrings \X dateStrings :
                    r[1].form # "datetime" /\ r[2].form # "datetime"}

\* create_event with this timestamp inserts a row (it is not refused).
Inserts(timestamp) ==
    ~Truthy(timestamp) \/ validateDateTime(timestamp, time_min) # None

\* Another request may go on to a second statement.
Free == BagCardinality(inflight) < MaxInFlight

\* The first statement of a request to any handler, its parameters drawn from
\* the given sets.  The tables are kept finite by not inserting beyond the
\* given ids, the requests in flight by MaxInFlight.
Request(ids, numbers, notesValues, dateStrings, clock, maxPropertyId, maxEventId) ==
    \/ \E number \in numbers, notes \in notesValues :
            /\ Free /\ NextId(properties) <= maxPropertyId
            /\ create_property(number, notes)
    \/ get_all_properties
    \/ \E property_id \in ids : get_property(property_id)
    \/ \E property_id \in ids, number \in numbers, notes \in notesValues :
            (property_id \in DOMAIN properties => Free)
                /\ update_property(property_id, number, notes)
    \/ \E property_id \in ids :
            (property_id \in DOMAIN properties => Free)
                /\ delete_property(property_id)
    \/ \E property_id \in ids, range \in DateRanges(dateStrings) :
            get_property_events(property_id, range[1], range[2])
    \/ \E property_id \in ids, description \in Descriptions,
          timestamp \in dateStrings, now \in clock :
            (Inserts(timestamp) => Free /\ NextId(logs) <= maxEventId)
                /\ create_event(property_id, description, timestamp, now)
    \/ \E property_id \in ids, event_id \in EventIds : get_event(property_id, event_id)
    \/ \E property_id \in ids, event_id \in EventIds :
            (PropertiesMatching(property_id, event_id) # {} => Free)
                /\ delete_event(property_id, event_id)

\* The next statement of a request in flight.
Continue ==
    \/ \E request \in BagToSet(inflight) : create_property_refresh(request)
    \/ \E request \in BagToSet(inflight) : update_property_commit(request)
    \/ \E request \in BagToSet(inflight) : delete_property_logs(request)
    \/ \E request \in BagToSet(inflight) : delete_property_commit(request)
    \/ \E request \in BagToSet(inflight) : create_event_refresh(request)
    \/ \E request \in BagToSet(inflight) : delete_event_commit(request)

\* Requests over every property id, with no date strings.
Next ==
    \/ Request(PropertyIds, Numbers, NotesValues, {Omitted}, {<<1, 1>>},
               MaxPropertyId, MaxEventId)
    \/ Continue
Spec == Init /\ [][Next]_vars

\* Requests about property 1, with every date string.
NextDates ==
    \/ Request({1}, {"101"}, {"corner unit"}, DateStrings, {<<MaxDay, 1>>},
               MaxPropertyId, MaxDatedEventId)
    \/ Continue
SpecDates == Init /\ [][NextDates]_vars

\* ================================================================ claims
\* The event with id event_id under property property_id is stored.
EventExists(property_id, event_id) ==
    event_id \in DOMAIN logs /\ logs[event_id].propertyId = property_id

\* Two responses are the same response.
SameResponse(r1, r2) == r1 = r2

\* This step answers a request to handler op: a handler of one statement
\* leaves the requests in flight as they are, the last statement of a longer
\* one takes its request out of them.
Answered(op) ==
    /\ last'.op = op
    /\ \/ inflight' = inflight
       \/ BagCardinality(inflight') < BagCardinality(inflight)

\* The requests to handler op that this step puts in flight: their first
\* statement found what it looked for, or inserted.
Started(op) ==
    {r \in BagToSet(inflight') :
        /\ r.op = op
        /\ BagCardinality(inflight') > BagCardinality(inflight)
        /\ CopiesIn(r, inflight') > CopiesIn(r, inflight)}

\* C1: get_event(property_id, event_id) returns the event with that id under
\* that property when it is stored, and fails with 404 otherwise; it never
\* returns an event with another id.
C1_GetEventScopedByBothIds ==
    [][Answered("get_event") =>
        IF EventExists(last'.args.property_id, last'.args.event_id)
        THEN last'.status = 200 /\ last'.body = Log(last'.args.event_id)
        ELSE last'.status = 404]_vars

\* C2: delete_event(property_id, event_id) removes exactly that event and
\* leaves every Property row and every other Event row as it was; when no
\* such event is stored it fails with 404 and leaves the store as it was.
C2_DeleteEventRemovesExactlyThatEvent ==
    [][/\ \A r \in Started("delete_event") :
                EventExists(r.args.property_id, r.args.event_id)
       /\ Answered("delete_event") =>
            IF last'.status = 404
            THEN /\ ~EventExists(last'.args.property_id, last'.args.event_id)
                 /\ UNCHANGED store
            ELSE /\ last'.status = 200
                 /\ logs' = Remove(logs, {last'.args.event_id})
                 /\ properties' = properties]_vars

\* The range a caller means by start_date and end_date: a date alone starts
\* at the start of its day and ends at the end of its day.
RangeStart(s) == IF s.form = "date" THEN <<s.day, time_min>> ELSE <<s.day, s.tick>>
RangeEnd(s) == IF s.form = "date" THEN <<s.day, time_max>> ELSE <<s.day, s.tick>>
ParseableStrings == {s \in DateStrings : s.form \in {"date", "datetime"}}

\* The response lists the event.
Lists(response, event) ==
    /\ response.status = 200
    /\ \E i \in DOMAIN response.body.rows : response.body.rows[i] = event

\* Listing the property's events from s to e lists the event with this id.
ListedIn(property_id, s, e, id) ==
    Lists(get_property_events_response(property_id, s, e), Log(id))

\* C3: an event created with an explicit timestamp t is, once it is stored,
\* listed by every range with start_date <= t <= end_date, and by no range
\* lying entirely before t or entirely after t.
C3_RangeListsExactlyEventsInRange ==
    [][\A r \in Started("create_event") :
        Truthy(r.args.timestamp) =>
            \A s \in ParseableStrings, e \in ParseableStrings :
                LET t == logs'[r.id].timestamp
                IN  /\ (Leq(RangeStart(s), t) /\ Leq(t, RangeEnd(e)))
                            => ListedIn(r.args.property_id, s, e, r.id)'
                    /\ (~Leq(t, RangeEnd(e)) \/ ~Leq(RangeStart(s), t))
                            => ~ListedIn(r.args.property_id, s, e, r.id)']_vars

\* What C4 says of a property that delete_property has deleted.
DeletedPropertyIsGone(p) ==
    /\ LogsOfProperty(p) = {}
    /\ get_property_response(p).status = 404
    /\ get_property_events_response(p, Omitted, Omitted).status = 404
    /\ \A e \in deleted[p] : get_event_response(p, e).status = 404

\* C4: after delete_property(p) succeeds, and until a create involves p again,
\* no event of p is stored and get_property(p), get_property_events(p) and
\* get_event(p, e), for every event e that p had, fail with 404;
\* delete_property of an id that is not stored fails with 404 and changes
\* nothing.
C4_DeletedPropertyAndEventsNotFound ==
    [][/\ \A p \in DOMAIN deleted' : DeletedPropertyIsGone(p)'
       /\ \A r \in Started("delete_property") : r.args.property_id \in DOMAIN properties
       /\ Answered("delete_property") =>
            IF last'.status = 404
            THEN last'.args.property_id \notin DOMAIN properties /\ UNCHANGED store
            ELSE last'.status = 200 /\ last'.args.property_id \in DOMAIN deleted']_vars

\* C5: every stored event's propertyId is the id of a stored property.
C5_EveryEventHasItsProperty ==
    \A l \in DOMAIN logs : logs[l].propertyId \in DOMAIN properties

\* C6: the id given to a new Property (a new Event) was never given to a
\* Property (an Event) before, deleted rows included.
C6_IdsNeverReused ==
    [][/\ (DOMAIN properties' \ DOMAIN properties) \cap assignedPropertyIds = {}
       /\ (DOMAIN logs' \ DOMAIN logs) \cap assignedEventIds = {}]_vars

\* A string that is no date: datetime.fromisoformat rejects it.
Unparsable(s) == s.form \in {"empty", "invalid"}
NonEmptyUnparsable(s) == s.form = "invalid"

\* C7 as stated: an unparsable timestamp, start_date or end_date fails with
\* 400, and the failed create_event inserts nothing and leaves the store as
\* it was.
C7_UnparsableDateIsBadRequest ==
    [][/\ \A r \in Started("create_event") : ~Unparsable(r.args.timestamp)
       /\ (Answered("create_event") /\ Unparsable(last'.args.timestamp))
            => (last'.status = 400 /\ UNCHANGED store)
       /\ (Answered("get_property_events")
                /\ (Unparsable(last'.args.start_date) \/ Unparsable(last'.args.end_date)))
            => last'.status = 400]_vars

\* C7 amended: a non-empty unparsable timestamp, start_date or end_date fails
\* with 400, and the failed create_event inserts nothing and leaves the store
\* as it was.
C7_NonEmptyUnparsableDateIsBadRequest ==
    [][/\ \A r \in Started("create_event") : ~NonEmptyUnparsable(r.args.timestamp)
       /\ (Answered("create_event") /\ NonEmptyUnparsable(last'.args.timestamp))
            => (last'.status = 400 /\ UNCHANGED store)
       /\ (Answered("get_property_events")
                /\ (NonEmptyUnparsable(last'.args.start_date)
                        \/ NonEmptyUnparsable(last'.args.end_date)))
            => last'.status = 400]_vars

\* C7's case: create_event with "not-a-date" was refused while events are stored.
C7_Witness ==
    /\ last.op = "create_event"
    /\ last.args.timestamp = NotADate
    /\ last.status = 400
    /\ DOMAIN logs # {}

\* The response of the last exchange.
LastResponse == [status |-> last.status, body |-> last.body]

\* C8: listing with start_date = d answers what listing with start_date =
\* dT00:00:00 answers, listing with end_date = d answers what listing with
\* end_date = dT23:59:59.999999 answers, whatever the other bound is, and
\* create_event with timestamp = d stores dT00:00:00.  Every request with a
\* date alone is compared on the store it was answered from; the other
\* bounds that no request carries are compared where the date came alone.
C8_DateOnlyEquivalences ==
    [][/\ (Answered("get_property_events") /\ last'.args.start_date.form = "date") =>
            LET p == last'.args.property_id
                d == last'.args.start_date.day
            IN  /\ LastResponse' =
                        get_property_events_response(p, DateTimeString(d, time_min),
                                                     last'.args.end_date)
                /\ last'.args.end_date = Omitted =>
                    \A other \in DateStrings :
                        SameResponse(
                            get_property_events_response(p, DateOnly(d), other),
                            get_property_events_response(p, DateTimeString(d, time_min), other))
       /\ (Answered("get_property_events") /\ last'.args.end_date.form = "date") =>
            LET p == last'.args.property_id
                d == last'.args.end_date.day
            IN  /\ LastResponse' =
                        get_property_events_response(p, last'.args.start_date,
                                                     DateTimeString(d, time_max))
                /\ last'.args.start_date = Omitted =>
                    \A other \in DateStrings :
                        SameResponse(
                            get_property_events_response(p, other, DateOnly(d)),
                            get_property_events_response(p, other, DateTimeString(d, time_max)))
       /\ (Answered("create_event") /\ last'.args.timestamp.form = "date")
            => last'.status # 400
       /\ \A r \in Started("create_event") :
            r.args.timestamp.form = "date" =>
                /\ r.id \in DOMAIN logs' \ DOMAIN logs
                /\ logs'[r.id].timestamp = <<r.args.timestamp.day, time_min>>]_vars

\* C8's case: events were listed up to a date given alone, and the property
\* has an event on that day between the start and the end of the day.
C8_Witness ==
    /\ last.op = "get_property_events"
    /\ last.args.end_date.form = "date"
    /\ last.status \in {200, 404}
    /\ \E l \in LogsOfProperty(last.args.property_id) :
        /\ logs[l].timestamp[1] = last.args.end_date.day
        /\ logs[l].timestamp[2] \notin {time_min, time_max}

\* C9: get_property of the id create_property gave a row answers the number
\* and notes it was created with, as long as no request updated or deleted
\* that property.
C9_CreatedPropertyStaysReadable ==
    [][(Answered("get_property") /\ last'.args.property_id \in DOMAIN created) =>
        /\ last'.status = 200
        /\ last'.body.number = created[last'.args.property_id].number
        /\ last'.body.notes = created[last'.args.property_id].notes]_vars

\* C10: validateDateTime returns a date-time given in full as it was given,
\* whatever the default time: the bounds get_property_events parses from
\* start_date and end_date given in full are the date-times supplied.
C10_FullDateTimeKeptAsGiven ==
    last.op = "get_property_events" =>
        \A s \in {last.args.start_date, last.args.end_date} :
            s.form = "datetime" =>
                \A defaultTime \in Ticks :
                    validateDateTime(s, defaultTime) = <<s.day, s.tick>>

====
